---- MODULE Spec2Model ----
(***************************************************************************)
(* Model of the two notebooks of the repository.                           *)
(*                                                                         *)
(*   numpys/boolean_mask.ipynb: arrays built by np.arange, indexed by      *)
(*   boolean masks (a[mask], a[(a % 2) == 1], a[a < 3]) and written        *)
(*   through slices (b[::2] = 0).  An array is a header (store, offset,    *)
(*   stride, len) over a backing store kept in a heap.                     *)
(*                                                                         *)
(*   04_basic_parameters_tuning.ipynb: GridSearchCV / RandomizedSearchCV   *)
(*   fitted with cv=5 and then used through score and predict.            *)
(***************************************************************************)
EXTENDS Integers, Sequences, FiniteSets, TLC

VARIABLES store, hdr, nWrites, last,
          kind, data, cand, ci, fi, nEvals, evalLog, sumScore,
          fitted, best_index_, best_params_, best_estimator_,
          lastCall, usedParams,
          rvsPc, dist, sample, value, passed,
          cvPc, split, outer, innerLog, refitLog, outerScores

arrVars == <<store, hdr, nWrites, last>>
srchVars == <<kind, data, cand, ci, fi, nEvals, evalLog, sumScore,
              fitted, best_index_, best_params_, best_estimator_,
              lastCall, usedParams>>
rvsVars == <<rvsPc, dist, sample, value, passed>>
vars == <<store, hdr, nWrites, last,
          kind, data, cand, ci, fi, nEvals, evalLog, sumScore,
          fitted, best_index_, best_params_, best_estimator_,
          lastCall, usedParams,
          rvsPc, dist, sample, value, passed,
          cvPc, split, outer, innerLog, refitLog, outerScores>>
cvVars == <<cvPc, split, outer, innerLog, refitLog, outerScores>>

(***************************************************************************)
(* Bounds of the array machine.                                            *)
(***************************************************************************)
\* array headers alive at once (a, b and one more)
MaxHdr == 3
\* element or slice writes in one run
MaxWrites == 1
\* largest slice step
MaxStep == 2
\* largest slice start
MaxStart == 1
\* a slice stop is len - t for t in 0..MaxTrim
MaxTrim == 1
\* values written are 0..MaxVal
MaxVal == 1

\* the sizes given to np.arange in the notebook
ArangeSizes == {4, 5}

\* np.arange(n): the values 0..n-1
Arange(n) == [i \in 1..n |-> i - 1]

\* (a % 2) == 1, elementwise
OddMask(vals) == [i \in 1..Len(vals) |-> (vals[i] % 2) = 1]

\* a < k, elementwise
LessMask(vals, k) == [i \in 1..Len(vals) |-> vals[i] < k]

\* every boolean array of length n
Masks(n) == [1..n -> BOOLEAN]

\* the slices start:stop:step tried on an array of length n
Slices(n) ==
  { sl \in [start : 0..MaxStart, stop : 0..n, step : 1..MaxStep] :
      /\ sl.start <= n
      /\ sl.stop >= n - MaxTrim }

\* the slice :: step of an array of length n (start and stop omitted)
FullSlice(n, step) == [start |-> 0, stop |-> n, step |-> step]

NoSlice == [start |-> 0, stop |-> 0, step |-> 1]

\* number of elements of start:stop:step (0 <= start, stop <= len, step > 0)
SliceLen(sl) ==
  IF sl.stop > sl.start THEN (sl.stop - sl.start + sl.step - 1) \div sl.step ELSE 0

\* element i (0-based) of header h, read from its backing store
Elem(h, i) == store[hdr[h].store][hdr[h].offset + i * hdr[h].stride + 1]

\* the array a header denotes
Values(h) == [i \in 1..hdr[h].len |-> Elem(h, i - 1)]

\* a wrong view: the slice start is dropped from the offset
SliceViewNoStart(h, sl) ==
  [store |-> hdr[h].store, offset |-> hdr[h].offset,
   stride |-> hdr[h].stride * sl.step, len |-> SliceLen(sl),
   kind |-> "slice", src |-> h, sl |-> sl, mask |-> <<>>]

\* a[start:stop:step]: a second header on the same backing store
SliceView(h, sl) ==
  [store |-> hdr[h].store, offset |-> hdr[h].offset + sl.start * hdr[h].stride,
   stride |-> hdr[h].stride * sl.step, len |-> SliceLen(sl),
   kind |-> "slice", src |-> h, sl |-> sl, mask |-> <<>>]

RECURSIVE MaskSelectFalse(_, _)
\* a wrong selection: the elements at the false positions
MaskSelectFalse(vals, m) ==
  IF Len(vals) = 0 THEN <<>>
  ELSE IF m[1] THEN MaskSelectFalse(Tail(vals), Tail(m))
       ELSE <<vals[1]>> \o MaskSelectFalse(Tail(vals), Tail(m))

RECURSIVE MaskSelect(_, _)
\* the elements of vals at the true positions of m, in order
MaskSelect(vals, m) ==
  IF Len(vals) = 0 THEN <<>>
  ELSE IF m[1] THEN <<vals[1]>> \o MaskSelect(Tail(vals), Tail(m))
       ELSE MaskSelect(Tail(vals), Tail(m))

NoOp == [op |-> "none", h |-> 0, new |-> 0, sl |-> NoSlice, mask |-> <<>>,
         i |-> 0, v |-> 0]

ArrInit ==
  /\ \E n \in ArangeSizes :
       /\ store = <<Arange(n)>>
       /\ hdr = <<[store |-> 1, offset |-> 0, stride |-> 1, len |-> n,
                   kind |-> "arange", src |-> 0, sl |-> NoSlice, mask |-> <<>>]>>
  /\ nWrites = 0
  /\ last = NoOp

\* v = a[start:stop:step]
SliceIndex(h, sl) ==
  /\ Len(hdr) < MaxHdr
  /\ hdr' = Append(hdr, SliceView(h, sl))
  /\ last' = [NoOp EXCEPT !.op = "slice", !.h = h, !.new = Len(hdr) + 1, !.sl = sl]
  /\ UNCHANGED <<store, nWrites>>

\* a wrong mask index: the result is a view of the first elements of a
MaskIndexAsView(h, m) ==
  /\ Len(hdr) < MaxHdr
  /\ Len(m) = hdr[h].len
  /\ hdr' = Append(hdr,
       [store |-> hdr[h].store, offset |-> hdr[h].offset, stride |-> hdr[h].stride,
        len |-> Len(MaskSelect(Values(h), m)),
        kind |-> "mask", src |-> h, sl |-> NoSlice, mask |-> m])
  /\ last' = [NoOp EXCEPT !.op = "mask", !.h = h, !.new = Len(hdr) + 1, !.mask = m]
  /\ UNCHANGED <<store, nWrites>>

\* b = a[mask]: a new backing store holding the selected elements
MaskIndex(h, m) ==
  /\ Len(hdr) < MaxHdr
  /\ Len(m) = hdr[h].len
  /\ store' = Append(store, MaskSelect(Values(h), m))
  /\ hdr' = Append(hdr,
       [store |-> Len(store) + 1, offset |-> 0, stride |-> 1,
        len |-> Len(MaskSelect(Values(h), m)),
        kind |-> "mask", src |-> h, sl |-> NoSlice, mask |-> m])
  /\ last' = [NoOp EXCEPT !.op = "mask", !.h = h, !.new = Len(hdr) + 1, !.mask = m]
  /\ UNCHANGED nWrites

\* a wrong element write: the header's stride is ignored
SetItemNoStride(h, i, v) ==
  /\ nWrites < MaxWrites
  /\ i < hdr[h].len
  /\ store' = [store EXCEPT ![hdr[h].store][hdr[h].offset + i + 1] = v]
  /\ nWrites' = nWrites + 1
  /\ last' = [NoOp EXCEPT !.op = "setitem", !.h = h, !.i = i, !.v = v]
  /\ UNCHANGED hdr

\* a[i] = v
SetItem(h, i, v) ==
  /\ nWrites < MaxWrites
  /\ i < hdr[h].len
  /\ store' = [store EXCEPT ![hdr[h].store][hdr[h].offset + i * hdr[h].stride + 1] = v]
  /\ nWrites' = nWrites + 1
  /\ last' = [NoOp EXCEPT !.op = "setitem", !.h = h, !.i = i, !.v = v]
  /\ UNCHANGED hdr

\* the store positions (1-based) the view covers
ViewPositions(view) == { view.offset + k * view.stride + 1 : k \in 0..(view.len - 1) }

\* a wrong slice write: every element from start to stop is written
SetSliceEvery(h, sl, v) ==
  /\ nWrites < MaxWrites
  /\ LET view == SliceView(h, [sl EXCEPT !.step = 1])
     IN store' = [store EXCEPT ![view.store] =
                    [p \in 1..Len(store[view.store]) |->
                       IF p \in { view.offset + k * view.stride + 1 :
                                    k \in 0..(view.len - 1) }
                       THEN v ELSE store[view.store][p]]]
  /\ nWrites' = nWrites + 1
  /\ last' = [NoOp EXCEPT !.op = "setslice", !.h = h, !.sl = sl, !.v = v]
  /\ UNCHANGED hdr

\* a[start:stop:step] = v: v is written through the view a[start:stop:step]
SetSlice(h, sl, v) ==
  /\ nWrites < MaxWrites
  /\ LET view == SliceView(h, sl)
     IN store' = [store EXCEPT ![view.store] =
                    [p \in 1..Len(store[view.store]) |->
                       IF p \in ViewPositions(view) THEN v ELSE store[view.store][p]]]
  /\ nWrites' = nWrites + 1
  /\ last' = [NoOp EXCEPT !.op = "setslice", !.h = h, !.sl = sl, !.v = v]
  /\ UNCHANGED hdr

(***************************************************************************)
(* Hyper-parameter search (04_basic_parameters_tuning.ipynb).              *)
(* learning_rate values are kept in hundredths: 0.01, 0.1, 1 are 1, 10,    *)
(* 100.  The score of one fit/score evaluation is an input: it is fixed by *)
(* the data set, the candidate and the fold.                               *)
(***************************************************************************)
\* cv=5
cv == 5
\* n_iter=10
n_iter == 10

\* param_grid: learning_rate (0.01, 0.1, 1) in hundredths
LearningRates == <<1, 10, 100>>
\* param_grid: max_leaf_nodes (5, 43, 63)
MaxLeafNodes == <<5, 43, 63>>

NoParams == [lr |-> 0, leaf |-> 0, draw |-> 0]

\* a wrong grid: the two value lists are paired up instead of crossed
ParameterGridZip ==
  [k \in 1..Len(LearningRates) |->
     [lr |-> LearningRates[k], leaf |-> MaxLeafNodes[k], draw |-> 0]]

\* the candidates of GridSearchCV: all combinations, max_leaf_nodes fastest
ParameterGrid ==
  [k \in 1..(Len(LearningRates) * Len(MaxLeafNodes)) |->
     [lr |-> LearningRates[((k - 1) \div Len(MaxLeafNodes)) + 1],
      leaf |-> MaxLeafNodes[((k - 1) % Len(MaxLeafNodes)) + 1],
      draw |-> 0]]

\* a wrong sampler: one draw more than n_iter
ParameterSamplerExtra == [k \in 1..(n_iter + 1) |-> [lr |-> 0, leaf |-> 0, draw |-> k]]

\* the candidates of RandomizedSearchCV: n_iter draws from param_distributions
ParameterSampler == [k \in 1..n_iter |-> [lr |-> 0, leaf |-> 0, draw |-> k]]

\* the data sets tried: two candidates that score well and one fold that
\* favours the even candidates
Datasets(n) == [hi : 1..n, hi2 : 1..n, noisy : 1..cv]

\* the score of candidate c on fold f
Score(d, c, f) ==
  (IF c = d.hi THEN 1 ELSE 0) + (IF c = d.hi2 THEN 1 ELSE 0)
  + (IF f = d.noisy /\ c % 2 = 0 THEN 1 ELSE 0)

\* a wrong selection: the index of the lowest total
ArgMin(sums) ==
  CHOOSE k \in 1..Len(sums) :
    /\ \A j \in 1..Len(sums) : sums[j] >= sums[k]
    /\ \A j \in 1..(k - 1) : sums[j] > sums[k]

\* rank_test_score = 1: the first index with the highest mean test score
\* (every candidate has cv scores, so the totals are compared)
ArgMax(sums) ==
  CHOOSE k \in 1..Len(sums) :
    /\ \A j \in 1..Len(sums) : sums[j] <= sums[k]
    /\ \A j \in 1..(k - 1) : sums[j] < sums[k]

SrchIdle ==
  /\ kind = "none"
  /\ data = [hi |-> 0, hi2 |-> 0, noisy |-> 0]
  /\ cand = <<>>
  /\ ci = 0
  /\ fi = 0
  /\ nEvals = 0
  /\ evalLog = {}
  /\ sumScore = <<>>
  /\ fitted = FALSE
  /\ best_index_ = 0
  /\ best_params_ = NoParams
  /\ best_estimator_ = NoParams
  /\ lastCall = "none"
  /\ usedParams = NoParams

ArrIdle ==
  /\ store = <<>>
  /\ hdr = <<>>
  /\ nWrites = 0
  /\ last = NoOp

\* GridSearchCV(model, param_grid, cv=5) / RandomizedSearchCV(model,
\* param_distributions, n_iter=10, cv=5), before fit
SrchInit ==
  /\ kind \in {"grid", "random"}
  /\ data \in Datasets(IF kind = "grid" THEN Len(ParameterGrid) ELSE n_iter)
  /\ cand = <<>>
  /\ ci = 0
  /\ fi = 0
  /\ nEvals = 0
  /\ evalLog = {}
  /\ sumScore = <<>>
  /\ fitted = FALSE
  /\ best_index_ = 0
  /\ best_params_ = NoParams
  /\ best_estimator_ = NoParams
  /\ lastCall = "none"
  /\ usedParams = NoParams

\* fit: the candidates are listed
FitStart ==
  /\ ~fitted
  /\ ci = 0
  /\ cand' = IF kind = "grid" THEN ParameterGrid ELSE ParameterSampler
  /\ sumScore' = [k \in 1..Len(cand') |-> 0]
  /\ ci' = 1
  /\ fi' = 1
  /\ UNCHANGED <<kind, data, nEvals, evalLog, fitted, best_index_, best_params_,
                 best_estimator_, lastCall, usedParams>>

\* fit: one fit/score evaluation, candidate by candidate and fold by fold
Evaluate ==
  /\ ~fitted
  /\ ci >= 1
  /\ ci <= Len(cand)
  /\ evalLog' = evalLog \cup
       {[cand |-> ci, params |-> cand[ci], fold |-> fi, score |-> Score(data, ci, fi)]}
  /\ sumScore' = [sumScore EXCEPT ![ci] = @ + Score(data, ci, fi)]
  /\ nEvals' = nEvals + 1
  /\ IF fi < cv THEN fi' = fi + 1 /\ ci' = ci
                ELSE fi' = 1 /\ ci' = ci + 1
  /\ UNCHANGED <<kind, data, cand, fitted, best_index_, best_params_,
                 best_estimator_, lastCall, usedParams>>

\* fit: the best candidate is selected and the model refitted with it
FitFinish ==
  /\ ~fitted
  /\ ci > Len(cand)
  /\ Len(cand) > 0
  /\ best_index_' = ArgMax(sumScore)
  /\ best_params_' = cand[best_index_']
  /\ best_estimator_' = cand[best_index_']
  /\ fitted' = TRUE
  /\ UNCHANGED <<kind, data, cand, ci, fi, nEvals, evalLog, sumScore,
                 lastCall, usedParams>>

\* model_grid_search.predict(...)
Predict ==
  /\ fitted
  /\ lastCall' = "predict"
  /\ usedParams' = best_estimator_
  /\ UNCHANGED <<kind, data, cand, ci, fi, nEvals, evalLog, sumScore,
                 fitted, best_index_, best_params_, best_estimator_>>

\* model_grid_search.score(...)
ScoreCall ==
  /\ fitted
  /\ lastCall' = "score"
  /\ usedParams' = best_estimator_
  /\ UNCHANGED <<kind, data, cand, ci, fi, nEvals, evalLog, sumScore,
                 fitted, best_index_, best_params_, best_estimator_>>

(***************************************************************************)
(* reciprocal_int (04_basic_parameters_tuning.ipynb).  A real sample is    *)
(* kept in fixed point: the integer x stands for x / Resolution.           *)
(***************************************************************************)
\* samples are multiples of 1 / Resolution
Resolution == 2

\* the reciprocal_int(a, b) distributions of the notebook
ReciprocalInts ==
  { [a |-> 5, b |-> 63], [a |-> 3, b |-> 40], [a |-> 10, b |-> 50],
    [a |-> 15, b |-> 35], [a |-> 3, b |-> 15] }

\* reciprocal(a, b).rvs(): a sample of the log-uniform distribution on [a, b]
Support(d) == (d.a * Resolution)..(d.b * Resolution)

\* a wrong cast: rounding up
AsTypeIntCeil(x) == (x + Resolution - 1) \div Resolution

\* .astype(int): truncation toward zero
AsTypeInt(x) == IF x >= 0 THEN x \div Resolution ELSE -((-x) \div Resolution)

RvsIdle ==
  /\ rvsPc = "idle"
  /\ dist = [a |-> 0, b |-> 0]
  /\ sample = 0
  /\ value = 0
  /\ passed = 0

\* reciprocal_int(a, b)
RvsInit ==
  /\ rvsPc = "new"
  /\ dist \in ReciprocalInts
  /\ sample = 0
  /\ value = 0
  /\ passed = 0

\* rvs: self._distribution.rvs(*args, **kwargs)
Draw ==
  /\ rvsPc = "new"
  /\ sample' \in Support(dist)
  /\ rvsPc' = "drawn"
  /\ UNCHANGED <<dist, value, passed>>

\* rvs: .astype(int), the value returned
Cast ==
  /\ rvsPc = "drawn"
  /\ value' = AsTypeInt(sample)
  /\ rvsPc' = "cast"
  /\ UNCHANGED <<dist, sample, passed>>

\* the search sets the returned value as the estimator's parameter
SetParam ==
  /\ rvsPc = "cast"
  /\ passed' = value
  /\ rvsPc' = "set"
  /\ UNCHANGED <<dist, sample, value>>

(***************************************************************************)
(* Nested cross-validation: cross_val_score(model_random_search, data,     *)
(* target, cv=5).  The samples are 1..NSamples; how the splitter assigns   *)
(* them to folds is an input.  For each outer fold a fresh copy of the     *)
(* randomized search is fitted on the fold's training samples and then     *)
(* scored on its test samples.                                             *)
(***************************************************************************)
\* rows of data
NSamples == 10

Samples == 1..NSamples

\* the fold assignments tried: contiguous blocks, or every cv-th sample
Splits == {"blocks", "interleaved"}

\* the fold (1..cv) of the sample of rank r (0-based) among n samples
FoldIndex(sp, n, r) ==
  IF sp = "blocks"
  THEN LET q == n \div cv
           big == n % cv
       IN IF r < big * (q + 1) THEN (r \div (q + 1)) + 1
          ELSE big + ((r - big * (q + 1)) \div q) + 1
  ELSE (r % cv) + 1

Rank(S, x) == Cardinality({ y \in S : y < x })

\* the test samples of fold k when the samples S are split into cv folds
TestFold(sp, S, k) == { x \in S : FoldIndex(sp, Cardinality(S), Rank(S, x)) = k }

\* the test samples of outer fold o
OuterTest(o) == TestFold(split, Samples, o)

\* a wrong outer split: the search is given all the data
OuterTrainLeak(o) == Samples

\* the training samples of outer fold o: the data the search is fitted on
OuterTrain(o) == Samples \ OuterTest(o)

\* inner fold f of the search fitted for outer fold o
InnerTest(o, f) == TestFold(split, OuterTrain(o), f)

InnerTrain(o, f) == OuterTrain(o) \ InnerTest(o, f)

\* the data sets tried in the nested run
NestedDatasets == { d \in Datasets(n_iter) : d.hi2 = d.hi /\ d.noisy = 1 }

CvIdle ==
  /\ cvPc = "idle"
  /\ split = "none"
  /\ outer = 0
  /\ innerLog = {}
  /\ refitLog = {}
  /\ outerScores = <<>>

\* an unfitted copy of the search
Unfitted ==
  /\ cand' = <<>>
  /\ ci' = 0
  /\ fi' = 0
  /\ nEvals' = 0
  /\ evalLog' = {}
  /\ sumScore' = <<>>
  /\ fitted' = FALSE
  /\ best_index_' = 0
  /\ best_params_' = NoParams
  /\ best_estimator_' = NoParams
  /\ lastCall' = "none"
  /\ usedParams' = NoParams
  /\ UNCHANGED <<kind, data>>

CvInit ==
  /\ cvPc = "start"
  /\ split \in Splits
  /\ outer = 0
  /\ innerLog = {}
  /\ refitLog = {}
  /\ outerScores = <<>>
  /\ kind = "random"
  /\ data \in NestedDatasets
  /\ cand = <<>>
  /\ ci = 0
  /\ fi = 0
  /\ nEvals = 0
  /\ evalLog = {}
  /\ sumScore = <<>>
  /\ fitted = FALSE
  /\ best_index_ = 0
  /\ best_params_ = NoParams
  /\ best_estimator_ = NoParams
  /\ lastCall = "none"
  /\ usedParams = NoParams

\* the next outer fold: the search is cloned
OuterStart ==
  /\ cvPc = "start"
  /\ outer < cv
  /\ outer' = outer + 1
  /\ cvPc' = "search"
  /\ Unfitted
  /\ UNCHANGED <<split, innerLog, refitLog, outerScores>>

\* the clone's fit on the outer training samples begins
InnerFitStart ==
  /\ cvPc = "search"
  /\ FitStart
  /\ UNCHANGED cvVars

\* one inner fit/score evaluation
InnerEvaluate ==
  /\ cvPc = "search"
  /\ Evaluate
  /\ innerLog' = innerLog \cup
       {[outer |-> outer, cand |-> ci, fold |-> fi,
         fitOn |-> InnerTrain(outer, fi), scoreOn |-> InnerTest(outer, fi)]}
  /\ UNCHANGED <<cvPc, split, outer, refitLog, outerScores>>

\* the clone selects its best candidate and refits it on the data it was given
InnerFitFinish ==
  /\ cvPc = "search"
  /\ FitFinish
  /\ refitLog' = refitLog \cup {[outer |-> outer, on |-> OuterTrain(outer)]}
  /\ cvPc' = "fitted"
  /\ UNCHANGED <<split, outer, innerLog, outerScores>>

\* the fitted clone is scored on the outer test samples
OuterScore ==
  /\ cvPc = "fitted"
  /\ ScoreCall
  /\ outerScores' = Append(outerScores,
       [outer |-> outer, params |-> best_estimator_, testOn |-> OuterTest(outer),
        chosen |-> fitted, inner |-> nEvals])
  /\ cvPc' = IF outer = cv THEN "done" ELSE "start"
  /\ UNCHANGED <<split, outer, innerLog, refitLog>>

Init == ArrInit /\ SrchIdle /\ RvsIdle /\ CvIdle

Next ==
  /\ UNCHANGED <<srchVars, rvsVars, cvVars>>
  /\ \/ \E h \in 1..Len(hdr) : \E sl \in Slices(hdr[h].len) : SliceIndex(h, sl)
     \/ \E h \in 1..Len(hdr) : \E m \in Masks(hdr[h].len) : MaskIndex(h, m)
     \/ \E h \in 1..Len(hdr) : \E i \in 0..(hdr[h].len - 1) : \E v \in 0..MaxVal :
          SetItem(h, i, v)
     \/ \E h \in 1..Len(hdr) : \E step \in 1..MaxStep : \E v \in 0..MaxVal :
          SetSlice(h, FullSlice(hdr[h].len, step), v)

Spec == Init /\ [][Next]_vars

SearchInit == ArrIdle /\ SrchInit /\ RvsIdle /\ CvIdle

SearchNext ==
  /\ UNCHANGED <<arrVars, rvsVars, cvVars>>
  /\ \/ FitStart
     \/ Evaluate
     \/ FitFinish
     \/ Predict
     \/ ScoreCall

SpecSearch == SearchInit /\ [][SearchNext]_vars

\* fit is a loop that runs to its end: its next step is taken when there is one
FitStep == UNCHANGED <<arrVars, rvsVars, cvVars>> /\ (FitStart \/ Evaluate \/ FitFinish)

SpecSearchFair == SearchInit /\ [][SearchNext]_vars /\ WF_vars(FitStep)

RvsSpecInit == ArrIdle /\ SrchIdle /\ RvsInit /\ CvIdle

RvsNext ==
  /\ UNCHANGED <<arrVars, srchVars, cvVars>>
  /\ \/ Draw
     \/ Cast
     \/ SetParam

SpecRvs == RvsSpecInit /\ [][RvsNext]_vars

NestedInit == ArrIdle /\ RvsIdle /\ CvInit

NestedNext ==
  /\ UNCHANGED <<arrVars, rvsVars>>
  /\ \/ OuterStart
     \/ InnerFitStart
     \/ InnerEvaluate
     \/ InnerFitFinish
     \/ OuterScore

SpecNested == NestedInit /\ [][NestedNext]_vars

(***************************************************************************)
(* Provenance of a header, from the operations that made it: the array it  *)
(* was sliced from, back to an array that was built by arange or by a mask *)
(* index, and the position in that array of each of its elements.          *)
(***************************************************************************)
RECURSIVE Owner(_)
Owner(h) == IF hdr[h].kind = "slice" THEN Owner(hdr[h].src) ELSE h

RECURSIVE AbsPos(_, _)
AbsPos(h, i) ==
  IF hdr[h].kind = "slice"
  THEN AbsPos(hdr[h].src, hdr[h].sl.start + i * hdr[h].sl.step)
  ELSE i

Headers == 1..Len(hdr)

Indices(h) == 0..(hdr[h].len - 1)

\* element i of header h after the step
ElemNext(h, i) == store'[hdr'[h].store][hdr'[h].offset + i * hdr'[h].stride + 1]

\* the step taken is a write (a[i] = v or a[::step] = v)
IsWrite == nWrites' = nWrites + 1

\* the indices of the written header that the write assigns
WrittenIdx(w) ==
  IF w.op = "setitem" THEN {w.i}
  ELSE { w.sl.start + k * w.sl.step : k \in 0..(SliceLen(w.sl) - 1) }

(***************************************************************************)
(* C1. Copy independence: a write through the result b of a mask index     *)
(* a[m], directly or through a slice (of a slice) of b, leaves every       *)
(* element of a as it was.                                                 *)
(***************************************************************************)
C1_Step ==
  (IsWrite /\ hdr[Owner(last'.h)].kind = "mask")
    => \A k \in Indices(hdr[Owner(last'.h)].src) :
         ElemNext(hdr[Owner(last'.h)].src, k) = Elem(hdr[Owner(last'.h)].src, k)

C1_CopyIndependence == [][C1_Step]_vars

\* a write through a slice of a mask result has changed that result
C1_Witness ==
  /\ last.op = "setitem"
  /\ hdr[last.h].kind = "slice"
  /\ hdr[Owner(last.h)].kind = "mask"
  /\ hdr[hdr[Owner(last.h)].src].kind = "arange"
  /\ last.v = 1
  /\ Elem(Owner(last.h), AbsPos(last.h, last.i)) = 1
  /\ hdr[Owner(last.h)].mask[AbsPos(last.h, last.i) + 1]
  /\ AbsPos(last.h, last.i) > 1

(***************************************************************************)
(* C2. View aliasing: with v = a[start:stop:step], a write of x to v[i]    *)
(* sets a[start + i*step] to x and changes no other element of a; a write  *)
(* of x to a[start + i*step] is read back as v[i].                         *)
(***************************************************************************)
C2_Step ==
  (IsWrite /\ last'.op = "setitem") =>
    /\ hdr[last'.h].kind = "slice" =>
         LET p == hdr[last'.h].src
             j == hdr[last'.h].sl.start + last'.i * hdr[last'.h].sl.step
         IN /\ ElemNext(p, j) = last'.v
            /\ \A k \in Indices(p) \ {j} : ElemNext(p, k) = Elem(p, k)
    /\ \A g \in Headers :
         (hdr[g].kind = "slice" /\ hdr[g].src = last'.h) =>
           \A k \in Indices(g) :
             (hdr[g].sl.start + k * hdr[g].sl.step = last'.i) => ElemNext(g, k) = last'.v

C2_ViewAliasing == [][C2_Step]_vars

\* a write to v[1] with v = a[1::2] has set a[3]
C2_Witness ==
  /\ last.op = "setitem"
  /\ hdr[last.h].kind = "slice"
  /\ hdr[hdr[last.h].src].kind = "arange"
  /\ hdr[last.h].sl.start = 1
  /\ hdr[last.h].sl.step = 2
  /\ last.i = 1
  /\ last.v = 1
  /\ Elem(hdr[last.h].src, 3) = 1

(***************************************************************************)
(* C3. The quiz: a = np.arange(5); b = a[a < 3]; b[::2] = 0 ends with      *)
(* a = [0,1,2,3,4] and b = [0,1,0].                                        *)
(***************************************************************************)
QuizRun ==
  /\ Len(hdr) = 2
  /\ hdr[1].len = 5
  /\ hdr[2].kind = "mask"
  /\ hdr[2].src = 1
  /\ hdr[2].mask = LessMask(Arange(5), 3)
  /\ nWrites = 1
  /\ last.op = "setslice"
  /\ last.h = 2
  /\ last.sl = FullSlice(hdr[2].len, 2)
  /\ last.v = 0

C3_Quiz == QuizRun => (Values(1) = <<0, 1, 2, 3, 4>> /\ Values(2) = <<0, 1, 0>>)

C3_Witness == QuizRun /\ hdr[2].len = 3 /\ Elem(2, 2) = 0

(***************************************************************************)
(* C4. Mask selection: a[m] holds the elements a[i] with m[i] true, in     *)
(* increasing order of i, as many as m has true entries; [0,1,2,3] under   *)
(* [False,True,True,False] gives [1,2] and under (a % 2) == 1 gives [1,3]. *)
(***************************************************************************)
TruePositions(m) == { i \in 1..Len(m) : m[i] }

C4_MaskSelection ==
  last.op = "mask" =>
    LET r == Values(last.new)
        a == Values(last.h)
        T == TruePositions(last.mask)
    IN /\ Len(r) = Cardinality(T)
       /\ \A i \in T : r[Cardinality({ j \in T : j <= i })] = a[i]
       /\ (a = <<0, 1, 2, 3>> /\ last.mask = <<FALSE, TRUE, TRUE, FALSE>>)
            => r = <<1, 2>>
       /\ (a = <<0, 1, 2, 3>> /\ last.mask = OddMask(a)) => r = <<1, 3>>

C4_Witness ==
  /\ last.op = "mask"
  /\ Values(last.h) = <<0, 1, 2, 3>>
  /\ last.mask = OddMask(Values(last.h))
  /\ Values(last.new) = <<1, 3>>

(***************************************************************************)
(* C8. Shared store: headers made from one array by slicing read the same  *)
(* value wherever they cover the same element, and a write through one of  *)
(* them shows through every other exactly there; a header that was not     *)
(* sliced from the written array reads what it read before.                *)
(***************************************************************************)
SharedRead ==
  \A g \in Headers : \A h \in Headers :
    \A i \in Indices(g) : \A j \in Indices(h) :
      (Owner(g) = Owner(h) /\ AbsPos(g, i) = AbsPos(h, j)) => Elem(g, i) = Elem(h, j)

WriteObserved ==
  IsWrite =>
    \A g \in Headers : \A j \in Indices(g) :
      IF /\ Owner(g) = Owner(last'.h)
         /\ \E i \in WrittenIdx(last') : AbsPos(g, j) = AbsPos(last'.h, i)
      THEN ElemNext(g, j) = last'.v
      ELSE ElemNext(g, j) = Elem(g, j)

C8_SharedStore == []SharedRead /\ [][WriteObserved]_vars

\* a write through a slice of a slice of a shows in a
C8_Witness ==
  /\ Len(hdr) = 3
  /\ hdr[2].kind = "slice"
  /\ hdr[2].src = 1
  /\ hdr[3].kind = "slice"
  /\ hdr[3].src = 2
  /\ hdr[2].sl.start = 1
  /\ hdr[3].sl.start = 1
  /\ last.op = "setitem"
  /\ last.h = 3
  /\ last.v = 1
  /\ AbsPos(3, last.i) > 2
  /\ Elem(1, AbsPos(3, last.i)) = 1

(***************************************************************************)
(* C9. Grid search over 3 learning_rate and 3 max_leaf_nodes values: each  *)
(* cross-validation fold sees exactly the 9 combinations, each once, 45    *)
(* fit/score evaluations in all with cv=5.                                 *)
(***************************************************************************)
FullProduct ==
  { [lr |-> l, leaf |-> n, draw |-> 0] : l \in {1, 10, 100}, n \in {5, 43, 63} }

FoldEvals(f) == { e \in evalLog : e.fold = f }

C9_GridEvaluations ==
  kind = "grid" =>
    /\ nEvals <= 45
    /\ nEvals = Cardinality(evalLog)
    /\ fitted =>
         /\ nEvals = 45
         /\ \A f \in 1..5 :
              /\ Cardinality(FoldEvals(f)) = 9
              /\ { e.params : e \in FoldEvals(f) } = FullProduct

C9_Witness == kind = "grid" /\ fitted /\ nEvals = 45 /\ Cardinality(FoldEvals(5)) = 9

(***************************************************************************)
(* C10. After fit, best_params_ is an evaluated candidate with no other    *)
(* candidate of strictly higher mean score over the folds, and predict and *)
(* score use the model with that configuration.                            *)
(***************************************************************************)
LoggedScore(k, f) == (CHOOSE e \in evalLog : e.cand = k /\ e.fold = f).score

RECURSIVE LoggedTotal(_, _)
\* the scores logged for candidate k on folds 1..f, added up
LoggedTotal(k, f) == IF f = 0 THEN 0 ELSE LoggedScore(k, f) + LoggedTotal(k, f - 1)

Evaluated(k) == \A f \in 1..cv : \E e \in evalLog : e.cand = k /\ e.fold = f

C10_BestSelected ==
  fitted =>
    /\ \E k \in 1..Len(cand) :
         /\ cand[k] = best_params_
         /\ Evaluated(k)
         /\ \A j \in 1..Len(cand) :
              Evaluated(j) /\ LoggedTotal(j, cv) <= LoggedTotal(k, cv)
    /\ lastCall # "none" => usedParams = best_params_

\* a randomized search whose best candidate is not the first one, used by score
C10_Witness ==
  /\ fitted
  /\ kind = "random"
  /\ lastCall = "score"
  /\ best_index_ > 1
  /\ usedParams = cand[best_index_]
  /\ \E j \in 1..Len(cand) : j # best_index_ /\ sumScore[j] = sumScore[best_index_]

(***************************************************************************)
(* C11. Randomized search has a fixed budget: with n_iter=10 and cv=5 it   *)
(* lists exactly 10 candidates, evaluates each once on each of the 5 folds *)
(* (50 fit/score evaluations, never more), and its fit comes to an end.    *)
(***************************************************************************)
CandEvals(k) == { e \in evalLog : e.cand = k }

RandomBudget ==
  kind = "random" =>
    /\ nEvals <= 50
    /\ nEvals = Cardinality(evalLog)
    /\ Len(cand) \in {0, 10}
    /\ fitted =>
         /\ nEvals = 50
         /\ \A k \in 1..10 :
              /\ Cardinality(CandEvals(k)) = 5
              /\ { e.fold : e \in CandEvals(k) } = 1..5

C13_ReciprocalInt ==
  /\ rvsPc \in {"cast", "set"} =>
       /\ value * Resolution <= sample
       /\ sample < (value + 1) * Resolution
       /\ dist.a <= value
       /\ value <= dist.b
  /\ rvsPc = "set" =>
       /\ passed = value
       /\ dist.a <= passed
       /\ passed <= dist.b

\* a sample strictly between 5 and 6 was passed on as 5
C13_Witness ==
  /\ rvsPc = "set"
  /\ dist = [a |-> 5, b |-> 63]
  /\ sample > dist.a * Resolution
  /\ sample % Resolution # 0
  /\ passed = 5

(***************************************************************************)
(* C14. A copy is a snapshot: once b = a[m] is made, a write to a, direct  *)
(* or through a slice of a, changes no element of b; and an index          *)
(* operation, by slice or by mask, changes no element of any array.        *)
(* (Mask and slice indexing are the index operations of the notebook.)     *)
(***************************************************************************)
\* the step taken is an index operation
IsIndex == Len(hdr') = Len(hdr) + 1

C14_Step ==
  /\ IsWrite =>
       \A b \in Headers :
         (hdr[b].kind = "mask" /\ Owner(last'.h) = Owner(hdr[b].src)) =>
           \A k \in Indices(b) : ElemNext(b, k) = Elem(b, k)
  /\ IsIndex =>
       \A g \in Headers : \A k \in Indices(g) : ElemNext(g, k) = Elem(g, k)

OuterEvals(o) == { e \in innerLog : e.outer = o }

C12_NestedIsolation ==
  /\ \A e \in innerLog :
       /\ e.fitOn \cap OuterTest(e.outer) = {}
       /\ e.scoreOn \cap OuterTest(e.outer) = {}
       /\ e.fitOn # {}
       /\ e.scoreOn # {}
  /\ \A r \in refitLog : r.on \cap OuterTest(r.outer) = {}
  /\ Len(outerScores) <= 5
  /\ \A i \in 1..Len(outerScores) :
       /\ outerScores[i].outer = i
       /\ outerScores[i].testOn = OuterTest(i)
       /\ outerScores[i].testOn # {}
       /\ outerScores[i].chosen
       /\ outerScores[i].inner = 50
       /\ Cardinality(OuterEvals(i)) = 50
       /\ \E r \in refitLog : r.outer = i
  /\ cvPc = "done" => Len(outerScores) = 5

C12_Witness ==
  /\ cvPc = "done"
  /\ split = "blocks"
  /\ Len(outerScores) = 5
  /\ Cardinality(innerLog) = 250
  /\ outerScores[5].testOn = {9, 10}

====
